---- MODULE Spec2Model ----
(***************************************************************************)
(* ChromaMemoryService (google/adk/memory/chroma_memory_service.py):       *)
(* add_session_to_memory writes one record per text-bearing event into the *)
(* collection "{app_name}_{user_id}"; search_memory queries that           *)
(* collection, decodes the hits into events, groups them per session id    *)
(* and sorts each group by timestamp.                                      *)
(*                                                                         *)
(* Strings that the code takes apart or puts together (ids, texts,         *)
(* queries) are sequences of one-character strings.  Every other Python    *)
(* value is a record [t, s, n]: t is the Python type, s the string (or the *)
(* name of the object), n the number (a bool is 0 or 1).                   *)
(***************************************************************************)
EXTENDS Integers, Sequences, FiniteSets, TLC

VARIABLES
    client,    \* the index: collection name -> <<>> or <<set of records>>
    pc,        \* "idle", "ingest" (add_session_to_memory is in its loop), or how
               \* the last call ended: "ingested", "failed", "searched"
    session,   \* the session of the add_session_to_memory call, running or last
    pos,       \* the index in session.events of the loop's next event
    response,  \* the last search_memory call: its arguments, what the index
               \* returned (hits) and what the call returned (status, memories)
    ingests,   \* the number of add_session_to_memory calls made
    began,     \* history: the (app_name, user_id) of the add_session_to_memory
               \* calls made
    added,     \* history: the collection.add calls that returned,
               \* [app_name, user_id, session_id, event]
    completed, \* history: those of added whose add_session_to_memory call
               \* has returned
    created,   \* history: the running or last add_session_to_memory call found
               \* its collection absent
    written,   \* history: the positions in session.events whose collection.add
               \* returned in the running or last add_session_to_memory call,
               \* in the order of the adds
    fault      \* history: where the index failed in the last search_memory
               \* call: "none", "get_collection" or "query"

vars ==
    <<client, pc, session, pos, response, ingests, began, added, completed, created,
      written, fault>>

-----------------------------------------------------------------------------
(* Python values *)

None == [t |-> "none", s |-> "", n |-> 0]

Str(x) == [t |-> "str", s |-> x, n |-> 0]

Num(k) == [t |-> "num", s |-> "", n |-> k]

Bool(b) == [t |-> "bool", s |-> "", n |-> IF b THEN 1 ELSE 0]

Obj(name) == [t |-> "obj", s |-> name, n |-> 0]

\* The empty containers: set() and {} are false in a Python condition.
EmptyObjects == {"T0", "D0"}

Truthy(v) ==
    CASE v.t = "none" -> FALSE
      [] v.t = "str"  -> v.s # ""
      [] v.t = "num"  -> v.n # 0
      [] v.t = "bool" -> v.n = 1
      [] OTHER        -> v.s \notin EmptyObjects

-----------------------------------------------------------------------------
(* Strings as sequences of characters *)

LowerChar(c) ==
    CASE c = "P" -> "p"
      [] c = "G" -> "g"
      [] c = "Y" -> "y"
      [] OTHER   -> c

\* str.lower()
Lower(s) == [i \in 1..Len(s) |-> LowerChar(s[i])]

\* f"{a}_{b}"
Underscore(a, b) == a \o <<"_">> \o b

RECURSIVE SplitAcc(_, _, _)
SplitAcc(s, w, acc) ==
    IF s = <<>>
    THEN IF w = <<>> THEN acc ELSE acc \cup {w}
    ELSE IF Head(s) = " "
         THEN SplitAcc(Tail(s), <<>>, IF w = <<>> THEN acc ELSE acc \cup {w})
         ELSE SplitAcc(Tail(s), Append(w, Head(s)), acc)

\* set(query.lower().split())
Keywords(query) == SplitAcc(Lower(query), <<>>, {})

RECURSIVE Join(_)
\* " ".join(text_parts)
Join(parts) ==
    IF parts = <<>> THEN <<>>
    ELSE IF Len(parts) = 1 THEN parts[1]
    ELSE parts[1] \o <<" ">> \o Join(Tail(parts))

\* doc_id_str.rsplit('_', 1): one part when there is no '_', else the text
\* before the last '_' and the text after it.
RSplit(key) ==
    LET seps == {i \in 1..Len(key) : key[i] = "_"}
    IN  IF seps = {} THEN <<key>>
        ELSE LET last == CHOOSE i \in seps : \A j \in seps : j <= i
             IN  <<SubSeq(key, 1, last - 1), SubSeq(key, last + 1, Len(key))>>

-----------------------------------------------------------------------------
(* Structured values and their text forms.  An object is known by its name: *)
(* A0, A1 are EventActions, G1 a GroundingMetadata, T0 = set(),             *)
(* T1 = {'t1'}, D0 = {}, D1 = {"k": 1}, D2 = {"k": {1}} (a dict that       *)
(* json.dumps rejects).                                                     *)

\* event.actions.model_dump_json(), event.grounding_metadata.model_dump_json()
ModelDumpJson(v) ==
    Str(CASE v.s = "A0" -> "{A0}"
          [] v.s = "A1" -> "{A1}"
          [] v.s = "G1" -> "{G1}"
          [] OTHER      -> "{}")

\* str(list(event.long_running_tool_ids))
StrList(v) ==
    Str(CASE v.s = "T1" -> "['t1']"
          [] OTHER      -> "[]")

\* json.dumps(value), and str(value) when json.dumps raises
JsonDumpsOrStr(v) ==
    Str(CASE v.s = "D0" -> "{}"
          [] v.s = "D1" -> "{k: 1}"
          [] v.s = "D2" -> "{'k': {1}}"
          [] OTHER      -> v.s)

Ok(v) == [ok |-> TRUE, v |-> v]

Raise == [ok |-> FALSE, v |-> None]

\* EventActions.model_validate_json(text)
ValidateActionsJson(v) ==
    CASE v.t = "str" /\ v.s = "{A0}" -> Ok(Obj("A0"))
      [] v.t = "str" /\ v.s = "{A1}" -> Ok(Obj("A1"))
      [] OTHER -> Raise

\* types.GroundingMetadata.model_validate_json(text)
ValidateGroundingJson(v) ==
    CASE v.t = "str" /\ v.s = "{G1}" -> Ok(Obj("G1"))
      [] OTHER -> Raise

\* set(eval(text))
SetEval(v) ==
    CASE v.t = "str" /\ v.s = "['t1']" -> Ok(Obj("T1"))
      [] v.t = "str" /\ v.s = "[]"     -> Ok(Obj("T0"))
      [] OTHER -> Raise

\* json.loads(text)
JsonLoads(v) ==
    CASE v.s = "{}"     -> Ok(Obj("D0"))
      [] v.s = "{k: 1}" -> Ok(Obj("D1"))
      [] OTHER -> Raise

\* float(value), int(value): a number stays, a bool becomes 0 or 1, a string
\* is parsed when it spells a number and raises ValueError otherwise.
Cast(v) ==
    CASE v.t = "num"  -> Ok(v)
      [] v.t = "bool" -> Ok(Num(v.n))
      [] v.t = "str" /\ v.s = "1" -> Ok(Num(1))
      [] v.t = "str" /\ v.s = "7" -> Ok(Num(7))
      [] OTHER -> Raise

-----------------------------------------------------------------------------
(* The metadata codec *)

_clean_metadata_value(value) ==
    IF value.t = "none" THEN Str("")
    ELSE IF value.t \in {"str", "num", "bool"} THEN value
    ELSE JsonDumpsOrStr(value)

\* type_caster is "none" or "cast"
_parse_metadata_field_value(value, type_caster, is_json_load) ==
    IF value = Str("") THEN Ok(None)
    ELSE IF value.t = "none" THEN Ok(None)
    ELSE IF is_json_load
         THEN IF value.t = "str" THEN JsonLoads(value) ELSE Ok(value)
    ELSE IF type_caster = "cast"
         THEN IF Cast(value).ok THEN Cast(value) ELSE Ok(None)
    ELSE Ok(value)

\* x if cond else None
IfElseNone(cond, x) == IF Truthy(cond) THEN x ELSE None

\* the metadatas=[{...}] argument of collection.add
Metadata(session_id, event) ==
    [ session_id    |-> session_id,
      event_id      |-> event.id,
      invocation_id |-> _clean_metadata_value(event.invocation_id),
      author        |-> _clean_metadata_value(event.author),
      timestamp     |-> _clean_metadata_value(event.timestamp),
      branch        |-> _clean_metadata_value(
                            IF Truthy(event.branch) THEN event.branch ELSE Str("")),
      actions       |-> _clean_metadata_value(
                            IfElseNone(event.actions, ModelDumpJson(event.actions))),
      long_running_tool_ids |-> _clean_metadata_value(
                            IfElseNone(event.long_running_tool_ids,
                                       StrList(event.long_running_tool_ids))),
      grounding_metadata |-> _clean_metadata_value(
                            IfElseNone(event.grounding_metadata,
                                       ModelDumpJson(event.grounding_metadata))),
      partial       |-> _clean_metadata_value(event.partial),
      turn_complete |-> _clean_metadata_value(event.turn_complete),
      error_code    |-> _clean_metadata_value(event.error_code),
      error_message |-> _clean_metadata_value(event.error_message),
      interrupted   |-> _clean_metadata_value(event.interrupted),
      custom_metadata |-> _clean_metadata_value(event.custom_metadata) ]

\* types.Part(text=...): the text is <<>> (no text) or <<chars>>
Part(text) == [text |-> text]

\* types.Content(parts=[...]); an event without content has content = <<>>
Content(parts) == <<parts>>

\* f(x) if x else None, for an f that can raise
ParseIfTruthy(value, parsed) == IF Truthy(value) THEN parsed ELSE Ok(None)

\* Event(...) of one hit.  ok is FALSE when computing a field raised: the
\* fields that can raise are actions, long_running_tool_ids, grounding_metadata
\* and custom_metadata.
DecodeEvent(event_id, md, document) ==
    [ ok |->
        /\ ParseIfTruthy(md.actions, ValidateActionsJson(md.actions)).ok
        /\ ParseIfTruthy(md.long_running_tool_ids, SetEval(md.long_running_tool_ids)).ok
        /\ ParseIfTruthy(md.grounding_metadata,
                         ValidateGroundingJson(md.grounding_metadata)).ok
        /\ _parse_metadata_field_value(md.custom_metadata, "none", TRUE).ok,
      event |->
        [ id            |-> event_id,
          invocation_id |-> md.invocation_id,
          author        |-> md.author,
          timestamp     |-> _parse_metadata_field_value(md.timestamp, "cast", FALSE).v,
          content       |-> Content(<<Part(<<document>>)>>),
          branch        |-> IfElseNone(md.branch, md.branch),
          actions       |-> ParseIfTruthy(md.actions, ValidateActionsJson(md.actions)).v,
          long_running_tool_ids |->
              ParseIfTruthy(md.long_running_tool_ids,
                            SetEval(md.long_running_tool_ids)).v,
          grounding_metadata |->
              ParseIfTruthy(md.grounding_metadata,
                            ValidateGroundingJson(md.grounding_metadata)).v,
          partial       |-> _parse_metadata_field_value(md.partial, "none", FALSE).v,
          turn_complete |-> _parse_metadata_field_value(md.turn_complete, "none", FALSE).v,
          error_code    |-> _parse_metadata_field_value(md.error_code, "cast", FALSE).v,
          error_message |-> md.error_message,
          interrupted   |-> _parse_metadata_field_value(md.interrupted, "none", FALSE).v,
          custom_metadata |->
              _parse_metadata_field_value(md.custom_metadata, "none", TRUE).v ] ]

-----------------------------------------------------------------------------
(* The index: what the code uses of chromadb.  client maps a collection     *)
(* name to <<>> (no such collection) or <<records>>, records being the set *)
(* of [id, document, metadata] the collection holds.                        *)

Absent == <<>>

Present(name) == client[name] # Absent

Records(name) == IF Present(name) THEN client[name][1] ELSE {}

\* where_document: {"$contains": k} is a case-sensitive substring test
ContainsText(document, keyword) ==
    \E i \in 0..(Len(document) - Len(keyword)) :
        SubSeq(document, i + 1, i + Len(keyword)) = keyword

\* collection.upsert in the place of collection.add: the record of an id the
\* collection already holds is replaced
AddUpsert(records, id, text, md) ==
    {r \in records : r.id # id} \cup {[id |-> id, document |-> text, metadata |-> md]}

\* collection.add(ids=[id], documents=[text], metadatas=[md]): a record whose
\* id the collection already holds is left as it is.
Add(records, id, text, md) ==
    IF \E r \in records : r.id = id
    THEN records
    ELSE records \cup {[id |-> id, document |-> text, metadata |-> md]}

\* The sequences of n different elements of S
Arrangements(S, n) ==
    {h \in [1..n -> S] : \A i, j \in 1..n : i # j => h[i] # h[j]}

Min(a, b) == IF a < b THEN a ELSE b

-----------------------------------------------------------------------------
(* The inputs *)

\* the number of add_session_to_memory calls of a run
MaxIngests == 2

\* ChromaMemoryService(top_k=2)
top_k == 2

\* (app_name, user_id)
Namespaces ==
    { <<(<<"a">>), (<<"b", "_", "c">>)>>,
      <<(<<"a", "_", "b">>), (<<"c">>)>>,
      <<(<<"a">>), (<<"c">>)>> }

SessionIds == {<<"s">>, <<"s", "_", "e">>}

Queries == {<<>>, <<" ">>, <<"P", "Y">>, <<"g", "o", " ", "z">>}

NoText == <<>>

Text(chars) == <<chars>>

E1 ==
    [ id |-> <<"1">>, invocation_id |-> Str("inv1"), author |-> Str("user"),
      timestamp |-> Num(2), content |-> Content(<<Part(Text(<<"P", "y">>))>>),
      branch |-> None, actions |-> Obj("A0"), long_running_tool_ids |-> None,
      grounding_metadata |-> None, partial |-> None, turn_complete |-> None,
      error_code |-> None, error_message |-> None, interrupted |-> None,
      custom_metadata |-> None ]

E2 ==
    [ id |-> <<"2">>, invocation_id |-> Str("inv2"), author |-> Str("assistant"),
      timestamp |-> Num(1),
      content |-> Content(<<Part(Text(<<"p", "y">>)), Part(NoText), Part(Text(<<"G", "o">>))>>),
      branch |-> Str("b"), actions |-> Obj("A1"), long_running_tool_ids |-> Obj("T1"),
      grounding_metadata |-> Obj("G1"), partial |-> Bool(FALSE),
      turn_complete |-> Bool(TRUE), error_code |-> Num(7),
      error_message |-> Str("boom"), interrupted |-> Bool(FALSE),
      custom_metadata |-> Obj("D1") ]

E3 ==
    [ E1 EXCEPT !.id = <<"e", "_", "1">>, !.invocation_id = Str("inv3"),
                !.timestamp = Num(3),
                !.content = Content(<<Part(Text(<<"G", "o">>))>>) ]

E4 ==
    [ E1 EXCEPT !.invocation_id = Str("inv4"), !.timestamp = Num(1),
                !.content = Content(<<Part(Text(<<"g", "o">>))>>) ]

E5 ==
    [ E1 EXCEPT !.id = <<"3">>, !.invocation_id = Str("inv5"), !.content = <<>> ]

EventLists == {<<E1, E2>>, <<E5, E4, E3>>}

Session(ns, id, events) ==
    [app_name |-> ns[1], user_id |-> ns[2], id |-> id, events |-> events]

\* Every session id with every event list in one namespace, and one session in
\* each of the others.
Sessions ==
    {Session(<<(<<"a">>), (<<"b", "_", "c">>)>>, id, events) :
        id \in SessionIds, events \in EventLists}
    \cup {Session(ns, <<"s">>, <<E1, E2>>) : ns \in Namespaces}

NoSession == [app_name |-> <<>>, user_id |-> <<>>, id |-> <<>>, events |-> <<>>]

CollectionNames == {Underscore(ns[1], ns[2]) : ns \in Namespaces}

NoResponse ==
    [app_name |-> <<>>, user_id |-> <<>>, query |-> <<>>, status |-> "none",
     hits |-> <<>>, memories |-> <<>>]

-----------------------------------------------------------------------------
(* add_session_to_memory *)

\* the text_parts list of one event
TextParts(event) ==
    LET parts  == event.content[1]
        texted == SelectSeq(parts, LAMBDA p : p.text # NoText /\ p.text[1] # <<>>)
    IN  [i \in 1..Len(texted) |-> Lower(texted[i].text[1])]

\* the two "continue" of the loop
Skipped(event) ==
    IF event.content = <<>> THEN TRUE
    ELSE IF event.content[1] = <<>> THEN TRUE
    ELSE TextParts(event) = <<>>

\* the history entry of one collection.add call
AddedBy(s, event) ==
    [app_name |-> s.app_name, user_id |-> s.user_id, session_id |-> s.id,
     event |-> event]

Init ==
    /\ client = [name \in CollectionNames |-> Absent]
    /\ pc = "idle"
    /\ session = NoSession
    /\ pos = 0
    /\ response = NoResponse
    /\ ingests = 0
    /\ began = {}
    /\ added = {}
    /\ completed = {}
    /\ created = FALSE
    /\ written = <<>>
    /\ fault = "none"

\* self.client.get_or_create_collection(f"{session.app_name}_{session.user_id}")
IngestBegin(s) ==
    /\ pc # "ingest"
    /\ ingests < MaxIngests
    /\ ingests' = ingests + 1
    /\ began' = began \cup {<<s.app_name, s.user_id>>}
    /\ created' = ~Present(Underscore(s.app_name, s.user_id))
    /\ UNCHANGED <<added, completed>>
    /\ LET name == Underscore(s.app_name, s.user_id)
       IN  client' = [client EXCEPT ![name] = IF Present(name) THEN @ ELSE <<{}>>]
    /\ pc' = "ingest"
    /\ session' = s
    /\ pos' = 1
    /\ response' = NoResponse
    /\ written' = <<>>
    /\ fault' = "none"

\* A loop that ends at the first event it skips (break for continue)
IngestSkipStops ==
    /\ pc = "ingest"
    /\ pos <= Len(session.events)
    /\ Skipped(session.events[pos])
    /\ pos' = Len(session.events) + 1
    /\ UNCHANGED <<client, pc, session, response, ingests, began, added, completed, created,
                   written, fault>>

\* One turn of the loop over session.events that stores nothing
IngestSkip ==
    /\ pc = "ingest"
    /\ pos <= Len(session.events)
    /\ Skipped(session.events[pos])
    /\ pos' = pos + 1
    /\ UNCHANGED <<client, pc, session, response, ingests, began, added, completed, created,
                   written, fault>>

\* One turn of the loop that reaches collection.add, and the add returns
IngestAdd ==
    /\ pc = "ingest"
    /\ pos <= Len(session.events)
    /\ ~Skipped(session.events[pos])
    /\ LET event == session.events[pos]
           name  == Underscore(session.app_name, session.user_id)
       IN  client' = [client EXCEPT ![name] =
                        <<Add(@[1], Underscore(session.id, event.id),
                              Join(TextParts(event)), Metadata(session.id, event))>>]
    /\ pos' = pos + 1
    /\ added' = added \cup {AddedBy(session, session.events[pos])}
    /\ written' = Append(written, pos)
    /\ UNCHANGED <<pc, session, response, ingests, began, completed, created, fault>>

\* A failing collection.add after which the call deletes the records of its
\* earlier adds
IngestAddRaisesRollsBack ==
    /\ pc = "ingest"
    /\ pos <= Len(session.events)
    /\ ~Skipped(session.events[pos])
    /\ pc' = "failed"
    /\ LET name == Underscore(session.app_name, session.user_id)
           keys == {Underscore(session.id, session.events[written[i]].id) :
                       i \in 1..Len(written)}
       IN  client' = [client EXCEPT ![name] = <<{r \in @[1] : r.id \notin keys}>>]
    /\ UNCHANGED <<session, pos, response, ingests, began, added, completed, created,
                   written, fault>>

\* collection.add raises (the index fails): the exception ends the call
IngestAddRaises ==
    /\ pc = "ingest"
    /\ pos <= Len(session.events)
    /\ ~Skipped(session.events[pos])
    /\ pc' = "failed"
    /\ UNCHANGED <<client, session, pos, response, ingests, began, added, completed,
                   created, written, fault>>

\* The loop is over
IngestReturn ==
    /\ pc = "ingest"
    /\ pos > Len(session.events)
    /\ pc' = "ingested"
    /\ completed' = completed \cup
          {AddedBy(session, session.events[i]) :
              i \in {j \in 1..Len(session.events) : ~Skipped(session.events[j])}}
    /\ UNCHANGED <<client, session, pos, response, ingests, began, added, created,
                   written, fault>>

-----------------------------------------------------------------------------
(* search_memory *)

\* A where_document that filters on one keyword only and is left out when
\* the query has more
WhereDocumentSingle(query) ==
    IF Cardinality(Keywords(query)) = 1 THEN Keywords(query) ELSE {}

\* The where_document filter built from the query: {} stands for no filter,
\* else the set of keywords of which the document must contain one.
WhereDocument(query) == Keywords(query)

\* the records of the collection that pass the filter
Matching(records, query) ==
    IF WhereDocument(query) = {}
    THEN records
    ELSE {r \in records : \E k \in WhereDocument(query) : ContainsText(r.document, k)}

\* a query without n_results=self.top_k
AllResults(n) == n

\* n_results=self.top_k
NResults(n) == Min(top_k, n)

\* collection.query(...): the index returns the n_results nearest of the
\* records that pass the filter; which are nearest, and in what order, is the
\* index's choice.
QueryResults(records, query) ==
    LET M == Matching(records, query)
    IN  Arrangements(M, NResults(Cardinality(M)))

\* query_texts=[query] if query else None: the index rejects a query without
\* query_texts
QueryRaises(query) == query = <<>>

\* the hits whose id splits in two at the last '_'
WellKeyed(hits) == SelectSeq(hits, LAMBDA h : Len(RSplit(h.id)) = 2)

\* session_id, event (and whether Event(...) raised) of one hit, from the two
\* parts of its id
DecodeHit(id_parts, hit) ==
    [ session_id |-> id_parts[1],
      d |-> DecodeEvent(id_parts[2], hit.metadata, hit.document) ]

Decoded(hits) ==
    LET w == WellKeyed(hits)
    IN  [i \in 1..Len(w) |-> DecodeHit(RSplit(w[i].id), w[i])]

RECURSIVE KeysInOrder(_, _)
\* the keys of the session_events dict, in the order they were inserted
KeysInOrder(decoded, seen) ==
    IF decoded = <<>> THEN <<>>
    ELSE IF Head(decoded).session_id \in seen
         THEN KeysInOrder(Tail(decoded), seen)
         ELSE <<Head(decoded).session_id>>
                  \o KeysInOrder(Tail(decoded), seen \cup {Head(decoded).session_id})

\* session_events[session_id]
SessionEvents(decoded, session_id) ==
    LET mine == SelectSeq(decoded, LAMBDA x : x.session_id = session_id)
    IN  [i \in 1..Len(mine) |-> mine[i].d.event]

RECURSIVE Insert(_, _)
Insert(sorted, e) ==
    IF sorted = <<>> THEN <<e>>
    ELSE IF e.timestamp.n < Head(sorted).timestamp.n
         THEN <<e>> \o sorted
         ELSE <<Head(sorted)>> \o Insert(Tail(sorted), e)

\* the events of a session left in the order of the hits
Unsorted(events) == events

RECURSIVE SortedByTimestamp(_)
\* sorted(events, key=lambda e: e.timestamp): ascending, ties in list order
SortedByTimestamp(events) ==
    IF events = <<>> THEN <<>>
    ELSE Insert(SortedByTimestamp(SubSeq(events, 1, Len(events) - 1)),
                events[Len(events)])

\* sorted() compares timestamps as soon as there are two: None is not ordered
SortRaises(events) ==
    Len(events) >= 2 /\ \E i \in 1..Len(events) : events[i].timestamp.t = "none"

\* memory_results
MemoryResults(decoded, keys) ==
    [j \in 1..Len(keys) |->
        [ session_id |-> keys[j],
          events |-> SortedByTimestamp(SessionEvents(decoded, keys[j])) ]]

\* A search that leaves out the hits whose Event(...) raised
ResultsSkippingCorrupt(decoded, keys) ==
    LET good == SelectSeq(decoded, LAMBDA x : x.d.ok)
    IN  [status |-> "ok", memories |-> MemoryResults(good, KeysInOrder(good, {}))]

\* What search_memory returns once the hits are decoded
Results(decoded, keys) ==
    IF \E i \in 1..Len(decoded) : ~decoded[i].d.ok
    THEN [status |-> "error", memories |-> <<>>]
    ELSE IF \E j \in 1..Len(keys) : SortRaises(SessionEvents(decoded, keys[j]))
    THEN [status |-> "error", memories |-> <<>>]
    ELSE [status |-> "ok", memories |-> MemoryResults(decoded, keys)]

\* A search that unpacks the two parts of every key and raises on a key
\* without '_'
AssembleStrict(hits) ==
    IF WellKeyed(hits) # hits
    THEN [status |-> "error", memories |-> <<>>]
    ELSE CHOOSE a \in {Results(decoded, KeysInOrder(decoded, {})) :
                          decoded \in {Decoded(hits)}} : TRUE

\* What search_memory returns for the hits the index gave
Assemble(hits) ==
    CHOOSE a \in {Results(decoded, KeysInOrder(decoded, {})) : decoded \in {Decoded(hits)}} :
        TRUE

SearchResponse(app_name, user_id, query, status, hits, memories) ==
    [app_name |-> app_name, user_id |-> user_id, query |-> query,
     status |-> status, hits |-> hits, memories |-> memories]

\* get_or_create_collection in the place of get_collection: the search makes
\* the collection it does not find
SearchCreatesCollection(app_name, user_id, query) ==
    /\ pc # "ingest"
    /\ ~Present(Underscore(app_name, user_id))
    /\ client' = [client EXCEPT ![Underscore(app_name, user_id)] = <<{}>>]
    /\ response' = SearchResponse(app_name, user_id, query,
                                  IF QueryRaises(query) THEN "error" ELSE "ok", <<>>, <<>>)
    /\ pc' = "searched"
    /\ session' = NoSession
    /\ pos' = 0
    /\ created' = FALSE
    /\ written' = <<>>
    /\ fault' = "none"
    /\ UNCHANGED <<ingests, began, added, completed>>

\* get_collection raises: SearchMemoryResponse(memories=[])
SearchNoCollection(app_name, user_id, query) ==
    /\ pc # "ingest"
    /\ ~Present(Underscore(app_name, user_id))
    /\ response' = SearchResponse(app_name, user_id, query, "ok", <<>>, <<>>)
    /\ pc' = "searched"
    /\ session' = NoSession
    /\ pos' = 0
    /\ created' = FALSE
    /\ written' = <<>>
    /\ fault' = "none"
    /\ UNCHANGED <<client, ingests, began, added, completed>>

\* collection.query raises: the exception leaves search_memory
SearchQueryRaises(app_name, user_id, query) ==
    /\ pc # "ingest"
    /\ Present(Underscore(app_name, user_id))
    /\ QueryRaises(query)
    /\ response' = SearchResponse(app_name, user_id, query, "error", <<>>, <<>>)
    /\ pc' = "searched"
    /\ session' = NoSession
    /\ pos' = 0
    /\ created' = FALSE
    /\ written' = <<>>
    /\ fault' = "none"
    /\ UNCHANGED <<client, ingests, began, added, completed>>

\* A search_memory that runs between two turns of the loop of a running
\* add_session_to_memory, which then goes on
SearchInFlight(app_name, user_id, query) ==
    /\ Present(Underscore(app_name, user_id))
    /\ ~QueryRaises(query)
    /\ \E hits \in QueryResults(Records(Underscore(app_name, user_id)), query) :
          \E a \in {Assemble(hits)} :
              response' = SearchResponse(app_name, user_id, query,
                                         a.status, hits, a.memories)
    /\ IF pc = "ingest"
       THEN UNCHANGED <<pc, session, pos, created, written>>
       ELSE /\ pc' = "searched"
            /\ session' = NoSession
            /\ pos' = 0
            /\ created' = FALSE
            /\ written' = <<>>
    /\ fault' = "none"
    /\ UNCHANGED <<client, ingests, began, added, completed>>

\* collection.query returns hits, which are decoded, grouped and sorted
Search(app_name, user_id, query) ==
    /\ pc # "ingest"
    /\ Present(Underscore(app_name, user_id))
    /\ ~QueryRaises(query)
    /\ \E hits \in QueryResults(Records(Underscore(app_name, user_id)), query) :
          \E a \in {Assemble(hits)} :
              response' = SearchResponse(app_name, user_id, query,
                                         a.status, hits, a.memories)
    /\ pc' = "searched"
    /\ session' = NoSession
    /\ pos' = 0
    /\ created' = FALSE
    /\ written' = <<>>
    /\ fault' = "none"
    /\ UNCHANGED <<client, ingests, began, added, completed>>

Next ==
    \/ \E s \in Sessions : IngestBegin(s)
    \/ IngestSkip
    \/ IngestAdd
    \/ IngestAddRaises
    \/ IngestReturn
    \/ \E ns \in Namespaces, q \in Queries : SearchNoCollection(ns[1], ns[2], q)
    \/ \E ns \in Namespaces, q \in Queries : SearchQueryRaises(ns[1], ns[2], q)
    \/ \E ns \in Namespaces, q \in Queries : Search(ns[1], ns[2], q)

Spec == Init /\ [][Next]_vars

-----------------------------------------------------------------------------
(* The index as the service finds it.  With is_persistent the client opens   *)
(* a store that outlives the service: a collection can hold records that no  *)
(* add_session_to_memory of this service wrote.  The index can also fail at  *)
(* get_collection and at query.                                              *)

\* the number of records of other writers in one collection
MaxForeign == 2

\* the metadata of a record of another writer: that of event E4 of session
\* "s", with some fields replaced
ForeignMetadata == Metadata(<<"s">>, E4)

\* Records of other writers:
\*   key "k" has no '_';
\*   key "q" has no '_' and its actions are no EventActions JSON;
\*   key "s_7" has actions that are no EventActions JSON;
\*   key "s_8" has grounding_metadata and custom_metadata that do not parse;
\*   key "s_9" has a timestamp and an error_code that are no numbers.
ForeignRecords ==
    { [id |-> <<"k">>, document |-> <<"g", "o">>, metadata |-> ForeignMetadata],
      [id |-> <<"q">>, document |-> <<"g", "o">>,
       metadata |-> [ForeignMetadata EXCEPT !.actions = Str("{")]],
      [id |-> <<"s", "_", "7">>, document |-> <<"g", "o">>,
       metadata |-> [ForeignMetadata EXCEPT !.event_id = <<"7">>,
                                            !.actions = Str("{")]],
      [id |-> <<"s", "_", "8">>, document |-> <<"g", "o">>,
       metadata |-> [ForeignMetadata EXCEPT !.event_id = <<"8">>,
                                            !.grounding_metadata = Str("{"),
                                            !.custom_metadata = Str("{")]],
      [id |-> <<"s", "_", "9">>, document |-> <<"g", "o">>,
       metadata |-> [ForeignMetadata EXCEPT !.event_id = <<"9">>,
                                            !.timestamp = Str("x"),
                                            !.error_code = Str("x")]] }

\* the collection of one (app_name, user_id) that the environment writes to
ForeignName == Underscore(<<"a">>, <<"c">>)

\* Another writer adds a record to a collection
ForeignAdd(r) ==
    /\ pc # "ingest"
    /\ Present(ForeignName)
    /\ r \notin Records(ForeignName)
    /\ Cardinality(Records(ForeignName) \cap ForeignRecords) < MaxForeign
    /\ client' = [client EXCEPT ![ForeignName] = <<Add(@[1], r.id, r.document, r.metadata)>>]
    /\ UNCHANGED <<pc, session, pos, response, ingests, began, added, completed, created,
                   written, fault>>

\* get_collection raises because the index is unavailable: the except clause
\* takes every exception for "no such collection"
SearchGetCollectionFails(app_name, user_id, query) ==
    /\ pc # "ingest"
    /\ response' = SearchResponse(app_name, user_id, query, "ok", <<>>, <<>>)
    /\ pc' = "searched"
    /\ session' = NoSession
    /\ pos' = 0
    /\ created' = FALSE
    /\ written' = <<>>
    /\ fault' = "get_collection"
    /\ UNCHANGED <<client, ingests, began, added, completed>>

\* collection.query raises because the index is unavailable: the exception
\* leaves search_memory
SearchQueryFails(app_name, user_id, query) ==
    /\ pc # "ingest"
    /\ Present(Underscore(app_name, user_id))
    /\ response' = SearchResponse(app_name, user_id, query, "error", <<>>, <<>>)
    /\ pc' = "searched"
    /\ session' = NoSession
    /\ pos' = 0
    /\ created' = FALSE
    /\ written' = <<>>
    /\ fault' = "query"
    /\ UNCHANGED <<client, ingests, began, added, completed>>

\* the sessions ingested into the collection the environment writes to
EnvSessions == {Session(<<(<<"a">>), (<<"c">>)>>, <<"s">>, <<E5, E1, E2>>)}

NextEnv ==
    \/ \E s \in EnvSessions : IngestBegin(s)
    \/ IngestSkip
    \/ IngestAdd
    \/ IngestAddRaises
    \/ IngestReturn
    \/ \E ns \in Namespaces, q \in Queries : SearchNoCollection(ns[1], ns[2], q)
    \/ \E ns \in Namespaces, q \in Queries : SearchQueryRaises(ns[1], ns[2], q)
    \/ \E ns \in Namespaces, q \in Queries : Search(ns[1], ns[2], q)
    \/ \E r \in ForeignRecords : ForeignAdd(r)
    \/ \E ns \in Namespaces, q \in Queries : SearchGetCollectionFails(ns[1], ns[2], q)
    \/ \E ns \in Namespaces, q \in Queries : SearchQueryFails(ns[1], ns[2], q)

SpecEnv == Init /\ [][NextEnv]_vars

-----------------------------------------------------------------------------
(* Words for the claims *)

EventFields ==
    {"id", "invocation_id", "author", "timestamp", "content", "branch", "actions",
     "long_running_tool_ids", "grounding_metadata", "partial", "turn_complete",
     "error_code", "error_message", "interrupted", "custom_metadata"}

\* the last call was a search_memory, and it returned a response
Returned == pc = "searched" /\ response.status = "ok"

\* no add_session_to_memory call is running or has failed after an add: every
\* collection.add that returned belongs to a call that returned
Settled == added = completed

\* the collection the last search_memory call asked for
SearchedName == Underscore(response.app_name, response.user_id)

\* the record that collection.add is given for a history entry of added
RecordOf(w) ==
    [ id |-> Underscore(w.session_id, w.event.id),
      document |-> Join(TextParts(w.event)),
      metadata |-> Metadata(w.session_id, w.event) ]

\* the events of the response, each with the session id of its Memory Result
ReturnedEvents ==
    UNION { { [session_id |-> response.memories[j].session_id,
               event |-> response.memories[j].events[k]] :
                 k \in 1..Len(response.memories[j].events) } :
            j \in 1..Len(response.memories) }

\* the text of an event that search_memory built: its one part
TextOf(event) == event.content[1][1].text[1]

\* r is the event w as the round trip promises it: every field but content as
\* ingested, content the lower-cased text
RoundTripOf(r, event) ==
    /\ \A f \in EventFields \ {"content"} : r[f] = event[f]
    /\ r.content = Content(<<Part(Text(Join(TextParts(event))))>>)

-----------------------------------------------------------------------------
(* C1 *)

\* C1: every ingested event whose record a search returns comes back with
\* every field as ingested (None as None), except content, which is the
\* lower-cased text.
C1_RoundTrip ==
    (Returned /\ Settled) =>
        \A i \in 1..Len(response.hits) : \A w \in added :
            ( /\ Underscore(w.app_name, w.user_id) = SearchedName
              /\ RecordOf(w) = response.hits[i] )
            => \E x \in ReturnedEvents : RoundTripOf(x.event, w.event)

-----------------------------------------------------------------------------
(* C2 *)

\* the last event of the running or last session that has the id of event i
LastWithId(i) ==
    \A j \in (i + 1)..Len(session.events) : session.events[j].id # session.events[i].id

\* C2 as stated: when add_session_to_memory has returned, each key of the
\* session has exactly one record, and that record holds the document and
\* metadata of this ingest.
C2_Upsert ==
    (pc = "ingested" /\ Settled) =>
        \A i \in 1..Len(session.events) :
            (~Skipped(session.events[i]) /\ LastWithId(i)) =>
                LET mine == {r \in Records(Underscore(session.app_name, session.user_id)) :
                                r.id = Underscore(session.id, session.events[i].id)}
                IN  mine = {RecordOf(AddedBy(session, session.events[i]))}

\* C2 as amended: no step changes or removes a stored record, and no
\* collection ever holds two records with one key: a key keeps the document and
\* metadata of the first add, and a later ingest of the same key changes
\* nothing.
C2_FirstWriteWins ==
    [][ \A name \in CollectionNames :
            /\ Records(name) \subseteq Records(name)'
            /\ \A r1, r2 \in Records(name)' : r1.id = r2.id => r1 = r2 ]_vars

\* A session was ingested again with another text under a key already stored,
\* and the call returned with the stored record as it was.
C2_Witness ==
    /\ pc = "ingested"
    /\ \E i \in 1..Len(session.events) :
          /\ ~Skipped(session.events[i])
          /\ \E r \in Records(Underscore(session.app_name, session.user_id)) :
                /\ r.id = Underscore(session.id, session.events[i].id)
                /\ r.metadata.session_id = session.id
                /\ r.metadata.event_id = session.events[i].id
                /\ r.document # Join(TextParts(session.events[i]))

-----------------------------------------------------------------------------
(* C3 *)

\* C3: every record a search of (app_name, user_id) returns was added by a
\* session of that app_name and user_id.
C3_Isolation ==
    (Returned /\ Settled) =>
        \A i \in 1..Len(response.hits) :
            \E w \in added :
                /\ w.app_name = response.app_name
                /\ w.user_id = response.user_id
                /\ RecordOf(w) = response.hits[i]

-----------------------------------------------------------------------------
(* C4 *)

\* C4: a search of an (app_name, user_id) for which add_session_to_memory was
\* never called returns an empty memories list and raises nothing.
C4_EmptyNamespace ==
    (pc = "searched" /\ <<response.app_name, response.user_id>> \notin began)
        => (response.status = "ok" /\ response.memories = <<>>)

-----------------------------------------------------------------------------
(* C5 *)

\* C5 as stated: a collection never goes from present to absent, no search
\* changes which collections are present, and an add_session_to_memory that
\* fails has not taken its collection from absent to present.
C5_OnlySuccessfulIngest ==
    [][ /\ \A name \in CollectionNames : Present(name) => Present(name)'
        /\ pc' = "searched" =>
              \A name \in CollectionNames : Present(name)' = Present(name)
        /\ pc' = "failed" => ~created' ]_vars

\* C5 as amended: a collection never goes from present to absent, and goes
\* from absent to present only in the step where an add_session_to_memory call
\* for that collection name resolves its collection, before any add: also
\* when the call later fails.
C5_CreatedAtBegin ==
    [][ \A name \in CollectionNames :
            /\ Present(name) => Present(name)'
            /\ (~Present(name) /\ Present(name)') =>
                  /\ pc # "ingest"
                  /\ pc' = "ingest"
                  /\ Underscore(session'.app_name, session'.user_id) = name ]_vars

\* An add_session_to_memory call found its collection absent and failed at its
\* first add: the collection is present and empty.
C5_Witness ==
    /\ pc = "failed"
    /\ created
    /\ Present(Underscore(session.app_name, session.user_id))
    /\ Records(Underscore(session.app_name, session.user_id)) = {}

-----------------------------------------------------------------------------
(* C6 *)

\* the hits of the response that the session with this id wrote
HitsOf(session_id) ==
    {i \in 1..Len(response.hits) : response.hits[i].metadata.session_id = session_id}

\* C6: the response has one Memory Result for each session id among the hits
\* and no other, none twice and none empty, and the Memory Result of a session
\* id holds as many events as the session has hits.
C6_Grouping ==
    (Returned /\ Settled) =>
        /\ {response.memories[j].session_id : j \in 1..Len(response.memories)}
              = {response.hits[i].metadata.session_id : i \in 1..Len(response.hits)}
        /\ \A j, k \in 1..Len(response.memories) :
              response.memories[j].session_id = response.memories[k].session_id => j = k
        /\ \A j \in 1..Len(response.memories) :
              /\ response.memories[j].events # <<>>
              /\ Len(response.memories[j].events)
                    = Cardinality(HitsOf(response.memories[j].session_id))

-----------------------------------------------------------------------------
(* C7 *)

\* C7: the events of every Memory Result are in ascending timestamp order.
C7_TimestampOrder ==
    Returned =>
        \A j \in 1..Len(response.memories) :
            \A a, b \in 1..Len(response.memories[j].events) :
                a < b => response.memories[j].events[a].timestamp.n
                            <= response.memories[j].events[b].timestamp.n

\* The index returned the later event of a session first, and the session's
\* Memory Result holds both events.
C7_Witness ==
    /\ Returned
    /\ Len(response.hits) = 2
    /\ response.hits[1].metadata.timestamp.n > response.hits[2].metadata.timestamp.n
    /\ Len(response.memories) = 1
    /\ Len(response.memories[1].events) = 2

-----------------------------------------------------------------------------
(* C8 *)

RECURSIVE TotalEvents(_)
TotalEvents(memories) ==
    IF memories = <<>> THEN 0
    ELSE Len(Head(memories).events) + TotalEvents(Tail(memories))

\* C8: the Memory Results of a response hold at most top_k events in all.
C8_TopK ==
    Returned => TotalEvents(response.memories) <= top_k

\* More than top_k records pass the filter and the response holds top_k events.
C8_Witness ==
    /\ Returned
    /\ Cardinality(Matching(Records(SearchedName), response.query)) > top_k
    /\ TotalEvents(response.memories) = top_k

-----------------------------------------------------------------------------
(* C9 *)

\* C9: when the query has a keyword, the text of every returned event contains
\* one of the query's lower-cased keywords.
C9_KeywordGate ==
    (Returned /\ Keywords(response.query) # {}) =>
        \A x \in ReturnedEvents :
            \E k \in Keywords(response.query) : ContainsText(TextOf(x.event), k)

\* A query in upper case returned an event ingested in mixed case, and left out
\* a record of the collection that contains no keyword.
C9_Witness ==
    /\ Returned
    /\ response.query = <<"P", "Y">>
    /\ \E x \in ReturnedEvents : TextOf(x.event) = <<"p", "y">>
    /\ \E w \in added : /\ RecordOf(w).document = <<"p", "y">>
                        /\ w.event.content[1][1].text[1] = <<"P", "y">>
    /\ \E r \in Records(SearchedName) :
          /\ \A k \in Keywords(response.query) : ~ContainsText(r.document, k)
          /\ \A i \in 1..Len(response.hits) : response.hits[i] # r

-----------------------------------------------------------------------------
(* C10 *)

\* C10: once add_session_to_memory has returned, a search of the session's
\* app_name and user_id whose keywords match at most top_k records returns,
\* for every matching record the session wrote, its event in the Memory Result
\* that has the session's id.
C10_IngestedFound ==
    ( /\ pc = "searched"
      /\ Settled
      /\ Keywords(response.query) # {}
      /\ Cardinality(Matching(Records(SearchedName), response.query)) <= top_k )
    => \A w \in completed :
          ( /\ w.app_name = response.app_name
            /\ w.user_id = response.user_id
            /\ RecordOf(w) \in Matching(Records(SearchedName), response.query) )
          => /\ response.status = "ok"
             /\ \E x \in ReturnedEvents :
                   /\ x.session_id = w.session_id
                   /\ x.event.id = w.event.id
                   /\ TextOf(x.event) = Join(TextParts(w.event))

-----------------------------------------------------------------------------
(* C11 *)

\* the hit's key splits into session id and event id
KeyedHit(hit) == Len(RSplit(hit.id)) = 2

\* the hit's stored actions, grounding_metadata or custom_metadata is a text
\* that does not parse
StructuredCorrupt(hit) ==
    \/ hit.metadata.actions = Str("{")
    \/ hit.metadata.grounding_metadata = Str("{")
    \/ hit.metadata.custom_metadata = Str("{")

\* the last call was a search_memory in which the index did not fail
Searched == pc = "searched" /\ fault = "none"

\* C11 as stated: a search one of whose hits carries an unparsable actions,
\* grounding_metadata or custom_metadata fails, and returns no result.
C11_CorruptAborts ==
    (Searched /\ \E i \in 1..Len(response.hits) : StructuredCorrupt(response.hits[i]))
        => (response.status = "error" /\ response.memories = <<>>)

\* C11 as amended: a search fails, and returns no result, when one of its hits
\* whose key has a '_' carries an unparsable actions, grounding_metadata or
\* custom_metadata; an unparsable hit whose key has no '_' is dropped before
\* it is decoded.
C11_KeyedCorruptAborts ==
    (Searched /\ \E i \in 1..Len(response.hits) :
                    KeyedHit(response.hits[i]) /\ StructuredCorrupt(response.hits[i]))
        => (response.status = "error" /\ response.memories = <<>>)

\* A search had a sound hit and an unparsable hit, and failed.
C11_Witness ==
    /\ Searched
    /\ response.status = "error"
    /\ \E i, j \in 1..Len(response.hits) :
          /\ KeyedHit(response.hits[i]) /\ StructuredCorrupt(response.hits[i])
          /\ KeyedHit(response.hits[j]) /\ ~StructuredCorrupt(response.hits[j])
          /\ response.hits[j].metadata.timestamp.t = "num"

-----------------------------------------------------------------------------
(* C12 *)

\* the hit's stored timestamp or error_code is a text that is no number
NumericCorrupt(hit) ==
    \/ hit.metadata.timestamp = Str("x")
    \/ hit.metadata.error_code = Str("x")

\* the hits of the response whose key has a '_'
KeyedHits == {i \in 1..Len(response.hits) : KeyedHit(response.hits[i])}

\* C12: when a hit's stored timestamp or error_code is no number (and no hit
\* is unparsable in a structured field), the search returns normally, with
\* one event for every hit whose key has a '_', and the event of such a hit
\* has None in the place of the number.
C12_NumericRecovered ==
    ( /\ Searched
      /\ \A i \in KeyedHits : ~StructuredCorrupt(response.hits[i])
      /\ \E i \in KeyedHits : NumericCorrupt(response.hits[i]) )
    => /\ response.status = "ok"
       /\ TotalEvents(response.memories) = Cardinality(KeyedHits)
       /\ \A i \in KeyedHits :
              NumericCorrupt(response.hits[i]) =>
                 \E x \in ReturnedEvents :
                    /\ x.event.id = RSplit(response.hits[i].id)[2]
                    /\ x.event.timestamp = None
                    /\ x.event.error_code = None

-----------------------------------------------------------------------------
(* C13 *)

\* C13: a search in which the index failed, at get_collection or at query,
\* for another reason than a missing collection, fails: the failure reaches
\* the caller and is not turned into an empty result.
C13_IndexFailuresPropagate ==
    (pc = "searched" /\ fault # "none") => response.status = "error"

-----------------------------------------------------------------------------
(* C14 *)

\* C14: when a hit's key has no '_' (and the hits whose key has one are
\* sound), the search returns normally; the response holds one event for
\* every hit whose key has a '_' and none for the others, each under the
\* session id and with the event id that its key splits into, and the events
\* of every Memory Result are in ascending timestamp order.
C14_MalformedKeyDropped ==
    ( /\ Searched
      /\ \E i \in 1..Len(response.hits) : ~KeyedHit(response.hits[i])
      /\ \A i \in KeyedHits : /\ ~StructuredCorrupt(response.hits[i])
                               /\ ~NumericCorrupt(response.hits[i]) )
    => /\ response.status = "ok"
       /\ TotalEvents(response.memories) = Cardinality(KeyedHits)
       /\ \A i \in KeyedHits :
              \E x \in ReturnedEvents :
                 /\ x.session_id = RSplit(response.hits[i].id)[1]
                 /\ x.event.id = RSplit(response.hits[i].id)[2]
                 /\ TextOf(x.event) = response.hits[i].document
       /\ \A j \in 1..Len(response.memories) :
              \A a, b \in 1..Len(response.memories[j].events) :
                 a < b => response.memories[j].events[a].timestamp.n
                             <= response.memories[j].events[b].timestamp.n

\* A search had a hit whose key has no '_' and a hit of an ingested event,
\* and returned the event of the second alone.
C14_Witness ==
    /\ Searched
    /\ response.status = "ok"
    /\ Len(response.hits) = 2
    /\ \E i \in 1..2 : ~KeyedHit(response.hits[i])
    /\ Cardinality(KeyedHits) = 1
    /\ TotalEvents(response.memories) = 1

-----------------------------------------------------------------------------
(* C15 *)

\* the collection of the running add_session_to_memory call
IngestName == Underscore(session.app_name, session.user_id)

\* a step of the loop of add_session_to_memory over the event at pos
LoopStep == pc = "ingest" /\ pos' # pos

\* C15 as stated: a turn of the loop writes nothing for an event without
\* content, parts or text, and for every other event leaves exactly one
\* record with the key {session.id}_{event.id}, whose document is the
\* lower-cased part texts joined in part order; every turn goes on to the next
\* event, and the call returns only after the last.
C15_RecordRule ==
    [][ /\ LoopStep =>
            /\ pos' = pos + 1 /\ pc' = "ingest"
            /\ \A name \in CollectionNames \ {IngestName} : client'[name] = client[name]
            /\ IF Skipped(session.events[pos])
               THEN client' = client
               ELSE {r \in Records(IngestName)' :
                        r.id = Underscore(session.id, session.events[pos].id)}
                       = {RecordOf(AddedBy(session, session.events[pos]))}
        /\ (pc = "ingest" /\ pc' = "ingested") => pos > Len(session.events) ]_vars

\* C15 as amended: as stated for an event whose key the collection does not
\* hold; for an event whose key the collection holds already, the turn of the
\* loop leaves the collection as it is.
C15_RecordRuleNewKeys ==
    [][ /\ LoopStep =>
            /\ pos' = pos + 1 /\ pc' = "ingest"
            /\ \A name \in CollectionNames \ {IngestName} : client'[name] = client[name]
            /\ IF Skipped(session.events[pos])
               THEN client' = client
               ELSE IF \E r \in Records(IngestName) :
                          r.id = Underscore(session.id, session.events[pos].id)
               THEN client' = client
               ELSE Records(IngestName)' =
                       Records(IngestName) \cup {RecordOf(AddedBy(session, session.events[pos]))}
        /\ (pc = "ingest" /\ pc' = "ingested") => pos > Len(session.events) ]_vars

\* An add_session_to_memory call skipped its first event, stored the two after
\* it and returned.
C15_Witness ==
    /\ pc = "ingested"
    /\ Len(session.events) = 3
    /\ Skipped(session.events[1])
    /\ written = <<2, 3>>
    /\ \A i \in {2, 3} :
          RecordOf(AddedBy(session, session.events[i])) \in Records(IngestName)

-----------------------------------------------------------------------------
(* C16 *)

\* C16: the key of every record that was added splits at its last '_' into
\* the session id and the event id it was built from, two records added under
\* different (session id, event id) have different keys, and a search that
\* returns a record reports its event with the event id it was ingested
\* under, in the Memory Result of the session id it was ingested under.
C16_Attribution ==
    /\ \A w \in added :
          RSplit(Underscore(w.session_id, w.event.id)) = <<w.session_id, w.event.id>>
    /\ \A w1, w2 \in added :
          ( /\ Underscore(w1.app_name, w1.user_id) = Underscore(w2.app_name, w2.user_id)
            /\ <<w1.session_id, w1.event.id>> # <<w2.session_id, w2.event.id>> )
          => Underscore(w1.session_id, w1.event.id) # Underscore(w2.session_id, w2.event.id)
    /\ Returned =>
          \A i \in 1..Len(response.hits) :
              \E x \in ReturnedEvents :
                  /\ x.session_id = response.hits[i].metadata.session_id
                  /\ x.event.id = response.hits[i].metadata.event_id
                  /\ TextOf(x.event) = response.hits[i].document

-----------------------------------------------------------------------------
(* C17 *)

-----------------------------------------------------------------------------
(* C18 *)

\* the positions before n of the session's events that are not skipped, in
\* ascending order
TextBearingBefore(n) ==
    SelectSeq([i \in 1..(n - 1) |-> i], LAMBDA i : ~Skipped(session.events[i]))

-----------------------------------------------------------------------------
(* C19 *)

\* C19: a search_memory call, whether it returns hits, returns an empty
\* result or raises, leaves every collection as it was: the same collections
\* are present and each holds the same records.
C19_SearchReadOnly ==
    [][ pc' = "searched" => client' = client ]_vars

\* A search of a collection that holds records has returned events; another
\* collection is absent.
C19_Witness ==
    /\ Returned
    /\ response.memories # <<>>
    /\ Records(SearchedName) # {}
    /\ \E name \in CollectionNames : ~Present(name)

=============================================================================
